---- MODULE Spec2Model ----
\* Test-run lifecycle of fuel_plugin/ostf_adapter/storage/models.py:
\* the test_runs and tests tables, the TestRun handlers (start, restart,
\* stop, update, update_test_run) and the bulk updates of Test.
EXTENDS Integers, Sequences, FiniteSets, TLC

\* ------------------------------------------------------------------
\* Bounds and universe
\* ------------------------------------------------------------------

\* Cap on the number of rows of test_runs (ids are 1..MaxRuns).
MaxRuns == 2

\* test_run_id of a template row (SQL NULL; run ids start at 1).
NoRun == 0

\* Unset DateTime column / a value written by datetime.utcnow().
Unset == "unset"
Stamp == "utcnow"

\* Two test sets of one check each on one cluster: the two (test_set,
\* cluster_id) pairs differ by test set.  Every name is foreign to one set.
TestSets == {"smoke", "sanity"}
Clusters == {1}
Names == {"disk", "net"}

\* Test.name order used by relationship(order_by='Test.name').
NameOrder == <<"disk", "net">>

\* Names of the Check Definitions loaded for each test set.
SuiteChecks(test_set) == IF test_set = "smoke" THEN <<"net">> ELSE <<"disk">>

\* TestSet.cleanup_path of each test set.
cleanup_path(test_set) == IF test_set = "smoke" THEN "smoke.cleanup" ELSE "sanity.cleanup"

\* no call of call_until_true in progress
PollIdle == [pc |-> "idle"]

\* no ExecutionTimeout scope entered, no alarm armed
GuardIdle == [pc |-> "idle"]

\* TestRun.STATES and Test.STATES as declared, and the statuses the code writes.
TestRunSTATES == {"running", "finished"}
TestSTATES == {"wait_running", "running", "failure", "success", "error", "stopped"}
RecordStatuses == TestSTATES \cup {"disabled"}

\* Field dictionaries the runner passes to add_result.
ResultData ==
    { [status |-> "running"], [status |-> "success"], [status |-> "failure"] }

VARIABLES
    runs,       \* table test_runs: runs[i] is the row with id = i
    tests,      \* table tests: tests[i] is the row with id = i
    result,     \* value returned by the last handler
    runnerLog,  \* calls made to the runner plugin by the last handler
    lastOp,     \* the last call if it was a start, restart or stop: its run and
                \* the answer it acted on (is_last_running, or plugin.kill)
    pending,    \* the start/restart of a caller that is between its guard and its write
    poll,       \* a call of call_until_true: its arguments, locals and position
    guard       \* the process alarm and the ExecutionTimeout scopes that are open

vars == <<runs, tests, result, runnerLog, lastOp, pending, poll, guard>>

\* ------------------------------------------------------------------
\* Rows and queries
\* ------------------------------------------------------------------

\* A template row (Check Definition) as loaded: no run, default status.
\* Of the columns that no handler reads, only message is kept.
TemplateRow(test_set, name) ==
    [name |-> name, test_set_id |-> test_set, test_run_id |-> NoRun,
     status |-> "wait_running", message |-> Unset]

\* the tests table as loaded from the test sets' definitions
TemplateRows ==
    [i \in 1..Len(SuiteChecks("smoke")) |-> TemplateRow("smoke", SuiteChecks("smoke")[i])]
        \o [i \in 1..Len(SuiteChecks("sanity")) |->
                TemplateRow("sanity", SuiteChecks("sanity")[i])]

EmptyResult == [empty |-> TRUE]

\* no start, restart or stop was called last
NoOp == [op |-> "none", run |-> NoRun, ok |-> FALSE]

\* a caller outside start and restart
Idle == [op |-> "idle", test_set |-> "smoke", cluster_id |-> 1, run |-> NoRun, ok |-> FALSE]

Max(S) == CHOOSE x \in S : \A y \in S : y <= x

\* ids of the runs of a (test_set, cluster_id) pair in table rs
PairRuns(rs, test_set, cluster_id) ==
    { i \in 1..Len(rs) : rs[i].cluster_id = cluster_id /\ rs[i].test_set_id = test_set }

\* get_last_test_run ordering by id ascending
get_last_test_run_Oldest(rs, test_set, cluster_id) ==
    IF PairRuns(rs, test_set, cluster_id) = {} THEN NoRun
    ELSE CHOOSE x \in PairRuns(rs, test_set, cluster_id) :
             \A y \in PairRuns(rs, test_set, cluster_id) : x <= y

\* TestRun.get_last_test_run: id of the first row by id descending, NoRun if none
get_last_test_run(rs, test_set, cluster_id) ==
    IF PairRuns(rs, test_set, cluster_id) = {} THEN NoRun
    ELSE Max(PairRuns(rs, test_set, cluster_id))

\* TestRun.is_finished
is_finished(run) == run.status = "finished"

\* is_last_running without the is_finished alternative
is_last_running_OnlyAbsent(rs, test_set, cluster_id) ==
    get_last_test_run(rs, test_set, cluster_id) = NoRun

\* TestRun.is_last_running
is_last_running(rs, test_set, cluster_id) ==
    LET last == get_last_test_run(rs, test_set, cluster_id)
    IN  last = NoRun \/ is_finished(rs[last])

\* Test.frontend, over the columns the model keeps
Test_frontend(row) ==
    [id |-> row.name, testset |-> row.test_set_id, message |-> row.message,
     status |-> row.status]

RECURSIVE OrderedByName(_, _, _)
\* rows of run `id` in table ts, ordered by name (then by id)
OrderedByName(ts, id, k) ==
    IF k > Len(NameOrder) THEN << >>
    ELSE SelectSeq(ts, LAMBDA row : row.test_run_id = id /\ row.name = NameOrder[k])
             \o OrderedByName(ts, id, k + 1)

\* relationship TestRun.tests
RunTests(ts, id) == OrderedByName(ts, id, 1)

\* TestRun.frontend (meta is never written by these handlers)
TestRun_frontend(rs, ts, id) ==
    [empty |-> FALSE, id |-> id, testset |-> rs[id].test_set_id, meta |-> Unset,
     cluster_id |-> rs[id].cluster_id, status |-> rs[id].status,
     started_at |-> Stamp, ended_at |-> rs[id].ended_at,
     tests |-> [i \in 1..Len(RunTests(ts, id)) |-> Test_frontend(RunTests(ts, id)[i])]]

\* ------------------------------------------------------------------
\* Writes
\* ------------------------------------------------------------------

\* copy_test with the membership test inverted
copy_test_Inverted(row, run_id, predefined_tests) ==
    [row EXCEPT !.test_run_id = run_id,
                !.status = IF predefined_tests # {} /\ row.name \in predefined_tests
                           THEN "disabled" ELSE "wait_running"]

\* Test.copy_test: every non-key column copied, then run id and status set
copy_test(row, run_id, predefined_tests) ==
    [row EXCEPT !.test_run_id = run_id,
                !.status = IF predefined_tests # {} /\ row.name \notin predefined_tests
                           THEN "disabled" ELSE "wait_running"]

\* the query of add_test_run: templates of the test set, in id order
TemplatesOf(ts, test_set) ==
    SelectSeq(ts, LAMBDA row : row.test_set_id = test_set /\ row.test_run_id = NoRun)

\* TestRun.add_test_run, the new test_runs table
add_test_run_runs(rs, test_set, cluster_id) ==
    Append(rs, [test_set_id |-> test_set, cluster_id |-> cluster_id,
                status |-> "running", ended_at |-> Unset])

\* add_test_run giving the clones the id of the latest existing run
add_test_run_tests_StaleId(rs, ts, test_set, predefined_tests) ==
    ts \o [i \in 1..Len(TemplatesOf(ts, test_set)) |->
              copy_test(TemplatesOf(ts, test_set)[i], Len(rs), predefined_tests)]

\* TestRun.add_test_run, the new tests table
add_test_run_tests(rs, ts, test_set, predefined_tests) ==
    ts \o [i \in 1..Len(TemplatesOf(ts, test_set)) |->
              copy_test(TemplatesOf(ts, test_set)[i], Len(rs) + 1, predefined_tests)]

\* TestRun.update
TestRun_update(run, status) ==
    [run EXCEPT !.status = status,
                !.ended_at = IF status = "finished" THEN Stamp ELSE run.ended_at]

\* TestRun.update_test_run: UPDATE ... WHERE id = test_run_id
update_test_run(rs, test_run_id, status) ==
    [i \in 1..Len(rs) |->
        IF i = test_run_id
        THEN [rs[i] EXCEPT !.status = status,
                           !.ended_at = IF status = "finished" THEN Stamp ELSE rs[i].ended_at]
        ELSE rs[i]]

\* add_result without the name filter
add_result_AnyName(ts, test_run_id, test_name, data) ==
    [i \in 1..Len(ts) |->
        IF ts[i].test_run_id = test_run_id
        THEN [f \in DOMAIN ts[i] |-> IF f \in DOMAIN data THEN data[f] ELSE ts[i][f]]
        ELSE ts[i]]

\* add_result that resets the columns the dictionary does not name
add_result_ResetsOthers(ts, test_run_id, test_name, data) ==
    [i \in 1..Len(ts) |->
        IF ts[i].name = test_name /\ ts[i].test_run_id = test_run_id
        THEN [f \in DOMAIN ts[i] |->
                IF f \in DOMAIN data THEN data[f]
                ELSE IF f \in {"status", "message"} THEN Unset ELSE ts[i][f]]
        ELSE ts[i]]

\* Test.add_result: UPDATE ... SET data WHERE name = .. AND test_run_id = ..
add_result(ts, test_run_id, test_name, data) ==
    [i \in 1..Len(ts) |->
        IF ts[i].name = test_name /\ ts[i].test_run_id = test_run_id
        THEN [f \in DOMAIN ts[i] |-> IF f \in DOMAIN data THEN data[f] ELSE ts[i][f]]
        ELSE ts[i]]

\* update_running_tests without the test_run_id filter
update_running_tests_AnyRun(ts, test_run_id, status) ==
    [i \in 1..Len(ts) |->
        IF ts[i].status \in {"running", "wait_running"}
        THEN [ts[i] EXCEPT !.status = status]
        ELSE ts[i]]

\* update_running_tests matching only 'running'
update_running_tests_OnlyRunning(ts, test_run_id, status) ==
    [i \in 1..Len(ts) |->
        IF ts[i].test_run_id = test_run_id /\ ts[i].status \in {"running"}
        THEN [ts[i] EXCEPT !.status = status]
        ELSE ts[i]]

\* Test.update_running_tests
update_running_tests(ts, test_run_id, status) ==
    [i \in 1..Len(ts) |->
        IF ts[i].test_run_id = test_run_id /\ ts[i].status \in {"running", "wait_running"}
        THEN [ts[i] EXCEPT !.status = status]
        ELSE ts[i]]

\* update_test_run_tests without the name filter
update_test_run_tests_AllOfRun(ts, test_run_id, tests_names, status) ==
    [i \in 1..Len(ts) |->
        IF ts[i].test_run_id = test_run_id
        THEN [ts[i] EXCEPT !.status = status]
        ELSE ts[i]]

\* Test.update_test_run_tests
update_test_run_tests(ts, test_run_id, tests_names, status) ==
    [i \in 1..Len(ts) |->
        IF ts[i].name \in tests_names /\ ts[i].test_run_id = test_run_id
        THEN [ts[i] EXCEPT !.status = status]
        ELSE ts[i]]

\* ------------------------------------------------------------------
\* Handlers, each run as one transaction
\* ------------------------------------------------------------------

Init ==
    /\ runs = << >>
    /\ tests = TemplateRows
    /\ result = EmptyResult
    /\ runnerLog = << >>
    /\ lastOp = NoOp
    /\ pending = Idle
    /\ poll = PollIdle
    /\ guard = GuardIdle

\* the writes of TestRun.start once its guard has answered `ok`
StartBody(test_set, cluster_id, names, ok) ==
    /\ ok => Len(runs) < MaxRuns
    /\ IF ok
       THEN /\ runs' = add_test_run_runs(runs, test_set, cluster_id)
            /\ tests' = add_test_run_tests(runs, tests, test_set, names)
            /\ runnerLog' = << [op |-> "run", run |-> Len(runs) + 1, test_set |-> test_set,
                                names |-> {}, cluster_id |-> cluster_id,
                                cleanup |-> Unset] >>
            /\ result' = TestRun_frontend(runs', tests', Len(runs) + 1)
            /\ lastOp' = [op |-> "start", run |-> Len(runs) + 1, ok |-> TRUE]
       ELSE /\ UNCHANGED <<runs, tests>>
            /\ runnerLog' = << >>
            /\ result' = EmptyResult
            /\ lastOp' = [op |-> "start", run |-> NoRun, ok |-> FALSE]

\* TestRun.start(session, test_set, metadata, tests); an empty `names`
\* stands for tests=None and tests=[], which the code treats alike
TestRun_start(test_set, cluster_id, names) ==
    /\ StartBody(test_set, cluster_id, names,
                 is_last_running(runs, test_set, cluster_id))
    /\ UNCHANGED <<pending, poll, guard>>

Start ==
    \E test_set \in TestSets, cluster_id \in Clusters, names \in SUBSET Names :
        TestRun_start(test_set, cluster_id, names)

\* TestRun.update called on a loaded run to report its completion
\* ('running' reaches update only through restart)
Update ==
    \E id \in 1..Len(runs) :
        /\ runs' = [runs EXCEPT ![id] = TestRun_update(runs[id], "finished")]
        /\ runnerLog' = << >>
        /\ result' = EmptyResult
        /\ lastOp' = NoOp
        /\ UNCHANGED <<tests, pending, poll, guard>>

\* TestRun.update_test_run called by the runner when a run completes
UpdateTestRun ==
    \E test_run_id \in 1..MaxRuns :
        /\ runs' = update_test_run(runs, test_run_id, "finished")
        /\ runnerLog' = << >>
        /\ result' = EmptyResult
        /\ lastOp' = NoOp
        /\ UNCHANGED <<tests, pending, poll, guard>>

\* the writes of TestRun.restart once its guard has answered `ok`
RestartBody(id, names, ok) ==
    IF ok
    THEN /\ runs' = [runs EXCEPT ![id] = TestRun_update(runs[id], "running")]
         /\ tests' = IF names # {}
                     THEN update_test_run_tests(tests, id, names, "wait_running")
                     ELSE tests
         /\ runnerLog' = << [op |-> "run", run |-> id, test_set |-> runs[id].test_set_id,
                             names |-> names, cluster_id |-> runs[id].cluster_id,
                             cleanup |-> Unset] >>
         /\ result' = TestRun_frontend(runs', tests', id)
         /\ lastOp' = [op |-> "restart", run |-> id, ok |-> TRUE]
    ELSE /\ UNCHANGED <<runs, tests>>
         /\ runnerLog' = << >>
         /\ result' = EmptyResult
         /\ lastOp' = [op |-> "restart", run |-> id, ok |-> FALSE]

\* TestRun.restart(session, tests) on the run with this id
TestRun_restart(id, names) ==
    /\ RestartBody(id, names,
                   is_last_running(runs, runs[id].test_set_id, runs[id].cluster_id))
    /\ UNCHANGED <<pending, poll, guard>>

Restart ==
    \E id \in 1..Len(runs), names \in SUBSET Names : TestRun_restart(id, names)

\* TestRun.stop: the kill request, the bulk update, the snapshot
StopBody(id, killed) ==
    /\ tests' = IF killed THEN update_running_tests(tests, id, "stopped") ELSE tests
    /\ runnerLog' = << [op |-> "kill", run |-> id, test_set |-> runs[id].test_set_id,
                        names |-> {}, cluster_id |-> runs[id].cluster_id,
                        cleanup |-> cleanup_path(runs[id].test_set_id)] >>
    /\ result' = TestRun_frontend(runs, tests', id)
    /\ lastOp' = [op |-> "stop", run |-> id, ok |-> killed]
    /\ UNCHANGED runs

\* TestRun.stop(session) on the run with this id; `killed` is plugin.kill's answer
TestRun_stop(id, killed) ==
    /\ StopBody(id, killed)
    /\ UNCHANGED <<pending, poll, guard>>

Stop ==
    \E id \in 1..Len(runs), killed \in BOOLEAN : TestRun_stop(id, killed)

\* Test.add_result called by the runner for a check of a run
AddResult ==
    \E test_run_id \in 1..MaxRuns, test_name \in Names, data \in ResultData :
        /\ tests' = add_result(tests, test_run_id, test_name, data)
        /\ runnerLog' = << >>
        /\ result' = EmptyResult
        /\ lastOp' = NoOp
        /\ UNCHANGED <<runs, pending, poll, guard>>

Next == Start \/ Update \/ UpdateTestRun \/ Restart \/ Stop \/ AddResult

Spec == Init /\ [][Next]_vars

\* ------------------------------------------------------------------
\* start and restart under concurrent callers: the guard's SELECT and
\* the handler's writes are separate statements.  One caller is followed
\* statement by statement; the handlers of the other callers run whole
\* between its statements.
\* ------------------------------------------------------------------

\* TestRun.start, up to the answer of is_last_running
StartGuard ==
    \E test_set \in TestSets, cluster_id \in Clusters :
        /\ pending.op = "idle"
        /\ pending' = [op |-> "start", test_set |-> test_set, cluster_id |-> cluster_id,
                       run |-> NoRun, ok |-> is_last_running(runs, test_set, cluster_id)]
        /\ UNCHANGED <<runs, tests, result, runnerLog, lastOp, poll, guard>>

\* TestRun.start, from the answer of is_last_running to its return
StartWrite ==
    \E names \in SUBSET Names :
        /\ pending.op = "start"
        /\ StartBody(pending.test_set, pending.cluster_id, names, pending.ok)
        /\ pending' = Idle
        /\ UNCHANGED <<poll, guard>>

\* TestRun.restart, up to the answer of is_last_running
RestartGuard ==
    \E id \in 1..Len(runs) :
        /\ pending.op = "idle"
        /\ pending' = [op |-> "restart", test_set |-> runs[id].test_set_id,
                       cluster_id |-> runs[id].cluster_id, run |-> id,
                       ok |-> is_last_running(runs, runs[id].test_set_id,
                                              runs[id].cluster_id)]
        /\ UNCHANGED <<runs, tests, result, runnerLog, lastOp, poll, guard>>

\* TestRun.restart, from the answer of is_last_running to its return
RestartWrite ==
    \E names \in SUBSET Names :
        /\ pending.op = "restart"
        /\ RestartBody(pending.run, names, pending.ok)
        /\ pending' = Idle
        /\ UNCHANGED <<poll, guard>>

NextConcurrent ==
    \/ StartGuard \/ StartWrite \/ RestartGuard \/ RestartWrite
    \/ Start \/ Restart \/ Update \/ UpdateTestRun \/ Stop

SpecConcurrent == Init /\ [][NextConcurrent]_vars

\* ------------------------------------------------------------------
\* Result ingestion: the runner reports on the checks of the runs that
\* were started, with dictionaries of one or two columns; runs are
\* started and stopped in between.  lastOp also records an add_result:
\* its arguments and the statuses of the rows it matched.
\* ------------------------------------------------------------------

\* Field dictionaries the runner passes to add_result: status, message or both.
IngestData ==
    { [status |-> "running"],
      [status |-> "success", message |-> "ok"],
      [status |-> "failure", message |-> "boom"],
      [message |-> "note"] }

\* rows of the tests table that the filter of add_result selects
Matched(ts, test_run_id, test_name) ==
    { i \in 1..Len(ts) : ts[i].name = test_name /\ ts[i].test_run_id = test_run_id }

\* Test.add_result(session, test_run_id, test_name, data)
Test_add_result(test_run_id, test_name, data) ==
    /\ tests' = add_result(tests, test_run_id, test_name, data)
    /\ runnerLog' = << >>
    /\ result' = EmptyResult
    /\ lastOp' = [op |-> "add_result", run |-> test_run_id,
                  ok |-> Matched(tests, test_run_id, test_name) # {},
                  name |-> test_name, data |-> data,
                  was |-> { tests[i].status : i \in Matched(tests, test_run_id, test_name) }]
    /\ UNCHANGED <<runs, pending, poll, guard>>

Ingest ==
    \E test_run_id \in 1..MaxRuns, test_name \in Names, data \in IngestData :
        Test_add_result(test_run_id, test_name, data)

NextIngest == Start \/ Stop \/ Ingest

SpecIngest == Init /\ [][NextIngest]_vars

\* ------------------------------------------------------------------
\* The three bulk updates of Test called on their own, with any
\* test_run_id a caller can pass: the id of a run, an id no run has, or
\* None.  filter_by(test_run_id=None) and test_run_id == None are
\* rendered as IS NULL, which is how NoRun compares in the operators.
\* ------------------------------------------------------------------

RunIdArgs == {NoRun} \cup (1..MaxRuns)

\* Test.add_result(session, test_run_id, test_name, data)
DirectAddResult ==
    \E test_run_id \in RunIdArgs, test_name \in Names, data \in ResultData :
        /\ tests' = add_result(tests, test_run_id, test_name, data)
        /\ runnerLog' = << >>
        /\ result' = EmptyResult
        /\ lastOp' = NoOp
        /\ UNCHANGED <<runs, pending, poll, guard>>

\* Test.update_running_tests(session, test_run_id), status left at 'stopped'
DirectUpdateRunningTests ==
    \E test_run_id \in RunIdArgs :
        /\ tests' = update_running_tests(tests, test_run_id, "stopped")
        /\ runnerLog' = << >>
        /\ result' = EmptyResult
        /\ lastOp' = NoOp
        /\ UNCHANGED <<runs, pending, poll, guard>>

\* Test.update_test_run_tests(session, test_run_id, tests_names), status left
\* at 'wait_running'
DirectUpdateTestRunTests ==
    \E test_run_id \in RunIdArgs, tests_names \in SUBSET Names :
        /\ tests' = update_test_run_tests(tests, test_run_id, tests_names, "wait_running")
        /\ runnerLog' = << >>
        /\ result' = EmptyResult
        /\ lastOp' = NoOp
        /\ UNCHANGED <<runs, pending, poll, guard>>

NextDirect ==
    \/ Start \/ Update \/ Restart \/ Stop
    \/ DirectAddResult \/ DirectUpdateRunningTests \/ DirectUpdateTestRunTests

SpecDirect == Init /\ [][NextDirect]_vars

\* ------------------------------------------------------------------
\* call_until_true(func, duration, sleep_for), statement by statement.
\* Time is in whole seconds.  poll.clock is what time.time() would
\* return; it moves while func runs and while time.sleep sleeps, which
\* lasts the requested time or up to MaxLag longer.  func answers true
\* on its firstTrue-th call (0: never).
\* ------------------------------------------------------------------

MaxDuration == 10
MaxSleep == 2
MaxCalls == 4
MaxLag == 2

\* timeout = now + duration
Deadline(now, duration) == now + duration

\* the loop test with <= in place of <
LoopCond_Inclusive(now, timeout) == now <= timeout

\* while now < timeout
LoopCond(now, timeout) == now < timeout

\* the arguments of a call and the clock at the time of the call
PollEntries ==
    { [pc |-> "entry", duration |-> d, sleep_for |-> s, firstTrue |-> k, clock |-> c,
       start |-> 0, now |-> 0, timeout |-> 0, calls |-> 0, nowAtCall |-> 0,
       slept |-> << >>, ret |-> FALSE] :
        d \in 0..MaxDuration, s \in 0..MaxSleep, k \in 0..MaxCalls, c \in 0..MaxLag }

InitPoller ==
    /\ runs = << >>
    /\ tests = TemplateRows
    /\ result = EmptyResult
    /\ runnerLog = << >>
    /\ lastOp = NoOp
    /\ pending = Idle
    /\ guard = GuardIdle
    /\ poll \in PollEntries

\* now = time.time(); timeout = now + duration
PollEnter ==
    /\ poll.pc = "entry"
    /\ poll' = [poll EXCEPT !.pc = "test", !.start = poll.clock, !.now = poll.clock,
                            !.timeout = Deadline(poll.clock, poll.duration)]
    /\ UNCHANGED <<runs, tests, result, runnerLog, lastOp, pending, guard>>

\* while now < timeout: ... / return False
PollTest ==
    /\ poll.pc = "test"
    /\ poll' = IF LoopCond(poll.now, poll.timeout)
               THEN [poll EXCEPT !.pc = "call"]
               ELSE [poll EXCEPT !.pc = "done", !.ret = FALSE]
    /\ UNCHANGED <<runs, tests, result, runnerLog, lastOp, pending, guard>>

\* if func(): return True
PollCall ==
    /\ poll.pc = "call"
    /\ poll.calls < MaxCalls
    /\ \E took \in 0..MaxLag :
         poll' = [poll EXCEPT !.calls = poll.calls + 1,
                              !.nowAtCall = poll.now,
                              !.clock = poll.clock + took,
                              !.pc = IF poll.calls + 1 = poll.firstTrue THEN "done" ELSE "sleep",
                              !.ret = (poll.calls + 1 = poll.firstTrue)]
    /\ UNCHANGED <<runs, tests, result, runnerLog, lastOp, pending, guard>>

\* time.sleep(sleep_for)
PollSleep ==
    /\ poll.pc = "sleep"
    /\ \E over \in 0..MaxLag :
         poll' = [poll EXCEPT !.pc = "read",
                              !.slept = Append(poll.slept, poll.sleep_for),
                              !.clock = poll.clock + poll.sleep_for + over]
    /\ UNCHANGED <<runs, tests, result, runnerLog, lastOp, pending, guard>>

\* now = time.time()
PollRead ==
    /\ poll.pc = "read"
    /\ poll' = [poll EXCEPT !.pc = "test", !.now = poll.clock]
    /\ UNCHANGED <<runs, tests, result, runnerLog, lastOp, pending, guard>>

NextPoller == PollEnter \/ PollTest \/ PollCall \/ PollSleep \/ PollRead

SpecPoller == InitPoller /\ [][NextPoller]_vars

\* ------------------------------------------------------------------
\* ExecutionTimeout.  The process has one alarm: signal.alarm(t) replaces
\* whatever was armed, signal.alarm(0) cancels it, and an alarm that goes
\* off is spent.  guard.alarmAt is the second at which SIGALRM is due
\* (NoAlarm: none armed).  guard.stack holds the scopes that are open,
\* innermost last; guard.exc is the exception travelling out of the body
\* of the innermost one (NoExc: the body is running).  Time is in whole
\* seconds; a body that ends, or an exception that travels, reaches
\* __exit__ within the second.  guard.left describes the scope that the
\* last step left.
\* ------------------------------------------------------------------

MaxTimeout == 2
MaxClock == 4
MaxDepth == 2
NoAlarm == 0

\* the statements that run inside a guarded scope
GuardCalls == {"nova.servers.list", "requests.get"}

\* exceptions: the type, and for the AssertionError of __exit__ the
\* statement and the timeout its message carries
Exc(type) == [type |-> type, call |-> "none", timeout |-> 0]

\* no exception
NoExc == Exc("none")

\* the error a guarded statement may raise by itself
OwnError == Exc("ValueError")

\* signal.alarm(self.timeout) at second `clock`
Arm(clock, timeout) == IF timeout = 0 THEN NoAlarm ELSE clock + timeout

\* __exit__ disarming only when the body timed out
ExitAlarm_OnlyOnTimeout(alarmAt, exc) ==
    IF exc.type = "TimeOutError" THEN NoAlarm ELSE alarmAt

\* signal.alarm(0) in __exit__
ExitAlarm(alarmAt, exc) == NoAlarm

\* __exit__ returning True for the body's own exceptions
ExitOutcome_Swallow(exc, scope) ==
    IF exc.type # "TimeOutError"
    THEN NoExc
    ELSE [type |-> "AssertionError", call |-> scope.call, timeout |-> scope.timeout]

\* what leaves the with statement when its body ended with `exc`:
\* __exit__ returns False unless exc_type is TimeOutError, and then raises
\* AssertionError with the interrupted statement and the timeout in its message
ExitOutcome(exc, scope) ==
    IF exc.type # "TimeOutError"
    THEN exc
    ELSE [type |-> "AssertionError", call |-> scope.call, timeout |-> scope.timeout]

NoScope == [timeout |-> 0, entered |-> 0, call |-> "none", nested |-> FALSE]

\* guard.left when the last step was not the exit of a scope
NotLeft == [scope |-> NoScope, exc |-> NoExc, out |-> NoExc, at |-> 0]

InitGuard ==
    /\ runs = << >>
    /\ tests = TemplateRows
    /\ result = EmptyResult
    /\ runnerLog = << >>
    /\ lastOp = NoOp
    /\ pending = Idle
    /\ poll = PollIdle
    /\ guard = [pc |-> "run", clock |-> 0, alarmAt |-> NoAlarm, stack |-> << >>,
                exc |-> NoExc, stray |-> FALSE, used |-> FALSE, left |-> NotLeft]

\* with ExecutionTimeout(timeout): call ...   (__init__ and __enter__);
\* one outermost with statement is followed, with those nested in it
GuardEnter ==
    \E timeout \in 0..MaxTimeout, call \in GuardCalls :
        /\ guard.pc = "run"
        /\ guard.exc = NoExc
        /\ Len(guard.stack) < MaxDepth
        /\ guard.stack = << >> => ~guard.used
        /\ guard' = [guard EXCEPT
                        !.alarmAt = Arm(guard.clock, timeout),
                        !.stack = Append(guard.stack,
                                         [timeout |-> timeout, entered |-> guard.clock,
                                          call |-> call, nested |-> FALSE]),
                        !.used = TRUE,
                        !.left = NotLeft]
        /\ UNCHANGED <<runs, tests, result, runnerLog, lastOp, pending, poll>>

\* a second passes while the innermost body (or the code outside any scope)
\* runs; if the alarm is due, SIGALRM is delivered and _raise_TimeOut raises
\* TimeOutError in the code that is running
GuardTick ==
    /\ guard.pc = "run"
    /\ guard.exc = NoExc
    /\ guard.clock < MaxClock
    /\ guard' = IF guard.alarmAt = guard.clock + 1
                THEN [guard EXCEPT !.clock = guard.clock + 1,
                                   !.alarmAt = NoAlarm,
                                   !.exc = IF guard.stack # << >> THEN Exc("TimeOutError") ELSE NoExc,
                                   !.stray = (guard.stray \/ guard.stack = << >>),
                                   !.left = NotLeft]
                ELSE [guard EXCEPT !.clock = guard.clock + 1, !.left = NotLeft]
    /\ UNCHANGED <<runs, tests, result, runnerLog, lastOp, pending, poll>>

\* the statement in the innermost scope raises an error of its own
GuardBodyRaise ==
    /\ guard.pc = "run"
    /\ guard.stack # << >>
    /\ guard.exc = NoExc
    /\ guard' = [guard EXCEPT !.exc = OwnError, !.left = NotLeft]
    /\ UNCHANGED <<runs, tests, result, runnerLog, lastOp, pending, poll>>

\* the body of the innermost scope handles the exception that came out of
\* a scope nested in it, and goes on
GuardBodyCatch ==
    /\ guard.pc = "run"
    /\ guard.stack # << >>
    /\ guard.exc # NoExc
    /\ guard.left # NotLeft
    /\ guard' = [guard EXCEPT !.exc = NoExc, !.left = NotLeft]
    /\ UNCHANGED <<runs, tests, result, runnerLog, lastOp, pending, poll>>

\* __exit__(exc_type, exc_val, exc_tb) of the innermost scope: its body
\* returned (guard.exc = NoExc) or an exception is leaving it
GuardExit ==
    /\ guard.pc = "run"
    /\ guard.stack # << >>
    /\ LET n == Len(guard.stack)
           scope == guard.stack[n]
           out == ExitOutcome(guard.exc, scope)
           rest == SubSeq(guard.stack, 1, n - 1)
       IN guard' = [guard EXCEPT
                       !.alarmAt = ExitAlarm(guard.alarmAt, guard.exc),
                       !.stack = [i \in 1..(n - 1) |->
                                     IF i = n - 1 THEN [rest[i] EXCEPT !.nested = TRUE]
                                     ELSE rest[i]],
                       !.exc = IF n > 1 THEN out ELSE NoExc,
                       !.left = [scope |-> scope, exc |-> guard.exc, out |-> out,
                                 at |-> guard.clock]]
    /\ UNCHANGED <<runs, tests, result, runnerLog, lastOp, pending, poll>>

NextGuard == GuardEnter \/ GuardTick \/ GuardBodyRaise \/ GuardBodyCatch \/ GuardExit

SpecGuard == InitGuard /\ [][NextGuard]_vars

\* ------------------------------------------------------------------
\* Properties
\* ------------------------------------------------------------------

\* ids of the runs of a pair in the current test_runs table
RunsOfPair(test_set, cluster_id) ==
    { i \in 1..Len(runs) : runs[i].test_set_id = test_set /\ runs[i].cluster_id = cluster_id }

\* the pair has a run, and the one with the highest id is not 'finished'
MostRecentUnfinished(test_set, cluster_id) ==
    \E i \in RunsOfPair(test_set, cluster_id) :
        /\ \A j \in RunsOfPair(test_set, cluster_id) : j <= i
        /\ runs[i].status # "finished"

\* ids of the rows of the tests table that belong to run `id`
RecordsOf(id) == { j \in 1..Len(tests) : tests[j].test_run_id = id }

\* C1: for every (test_set, cluster_id) pair at most one TestRun of the pair
\* has status 'running', also when a second caller's start or restart runs
\* between another caller's is_last_running check and its write.
C1_MutualExclusion ==
    \A test_set \in TestSets, cluster_id \in Clusters :
        Cardinality({ i \in RunsOfPair(test_set, cluster_id) :
                        runs[i].status = "running" }) <= 1

\* C2: a TestRun's ended_at is set if and only if its status is 'finished'.
C2_FinishInvariant ==
    \A i \in 1..Len(runs) :
        (runs[i].ended_at # Unset) <=> (runs[i].status = "finished")

\* C3: a start that creates a run gives the new run exactly one record per
\* Check Definition of the test set and no other record; each has the new
\* run's id, and its status is 'disabled' when the enabled-checks argument is
\* non-empty and does not hold its name, 'wait_running' otherwise.
C3_CloneCorrectness ==
    [][Len(runs') = Len(runs) + 1 =>
       \A test_set \in TestSets, cluster_id \in Clusters, names \in SUBSET Names :
        (TestRun_start(test_set, cluster_id, names) /\ Len(runs') = Len(runs) + 1) =>
            LET new == Len(runs')
                defs == { j \in 1..Len(tests) : /\ tests[j].test_run_id = NoRun
                                                /\ tests[j].test_set_id = test_set }
                recs == { j \in 1..Len(tests') : tests'[j].test_run_id = new }
            IN  /\ \A d \in defs :
                     Cardinality({ j \in recs : tests'[j].name = tests[d].name }) = 1
                /\ Cardinality(recs) = Cardinality(defs)
                /\ \A j \in recs :
                     /\ tests'[j].test_set_id = test_set
                     /\ tests'[j].status =
                            IF names # {} /\ tests'[j].name \notin names
                            THEN "disabled" ELSE "wait_running"
                /\ \A j \in 1..Len(tests) : tests'[j] = tests[j]
    ]_vars

\* C3 witness: a start with a non-empty enabled-checks argument has just
\* created a run whose record is 'disabled'.
C3_Witness ==
    /\ lastOp.op = "start" /\ lastOp.ok
    /\ RecordsOf(lastOp.run) # {}
    /\ \E j \in RecordsOf(lastOp.run) : tests[j].status = "disabled"

\* C4: a start for a pair whose most recent run exists and is not 'finished'
\* returns the empty result, changes no run and no record and makes no runner
\* call; any other start appends exactly one run, with status 'running', for
\* that pair and leaves the existing runs as they are.
C4_StartRefusal ==
    [][lastOp'.op = "start" =>
       \A test_set \in TestSets, cluster_id \in Clusters, names \in SUBSET Names :
        TestRun_start(test_set, cluster_id, names) =>
            IF MostRecentUnfinished(test_set, cluster_id)
            THEN /\ result' = EmptyResult
                 /\ runs' = runs /\ tests' = tests
                 /\ runnerLog' = << >>
            ELSE /\ Len(runs') = Len(runs) + 1
                 /\ SubSeq(runs', 1, Len(runs)) = runs
                 /\ runs'[Len(runs')].status = "running"
                 /\ runs'[Len(runs')].test_set_id = test_set
                 /\ runs'[Len(runs')].cluster_id = cluster_id
    ]_vars

\* C4 witness: a start has just been refused because the pair's most recent
\* run is 'running'.
C4_Witness ==
    /\ lastOp.op = "start" /\ ~lastOp.ok
    /\ result = EmptyResult
    /\ \E test_set \in TestSets, cluster_id \in Clusters :
           MostRecentUnfinished(test_set, cluster_id)

\* C5: a restart that returns a snapshot, called with a non-empty list of
\* names, sets the status of the records of its run whose name is listed to
\* 'wait_running' and leaves the status of its other records as it was; called
\* with no names it changes no record status of its run.
C5_RestartRearm ==
    [][lastOp'.op = "restart" =>
       \A id \in 1..Len(runs), names \in SUBSET Names :
        (TestRun_restart(id, names) /\ result' # EmptyResult) =>
            /\ Len(tests') = Len(tests)
            /\ \A j \in RecordsOf(id) :
                 /\ tests'[j].test_run_id = id
                 /\ tests'[j].name = tests[j].name
                 /\ tests'[j].status =
                        IF names # {} /\ tests[j].name \in names
                        THEN "wait_running" ELSE tests[j].status
    ]_vars

\* C5 witness: a restart with names that do not list the run's record has
\* just been accepted, and that record still shows the runner's 'success'.
C5_Witness ==
    /\ lastOp.op = "restart" /\ lastOp.ok
    /\ Len(runnerLog) = 1 /\ runnerLog[1].names # {}
    /\ \E j \in RecordsOf(lastOp.run) :
           tests[j].name \notin runnerLog[1].names /\ tests[j].status = "success"

\* C6: a restart of a finished run whose pair's most recent run is finished
\* leaves the run 'running' with ended_at unset, makes exactly one runner call,
\* run(...) for this run, and returns this run's non-empty snapshot.
C6_RestartSuccess ==
    [][lastOp'.op = "restart" =>
       \A id \in 1..Len(runs), names \in SUBSET Names :
        ( /\ TestRun_restart(id, names)
          /\ runs[id].status = "finished"
          /\ ~MostRecentUnfinished(runs[id].test_set_id, runs[id].cluster_id) ) =>
            /\ runs'[id].status = "running"
            /\ runs'[id].ended_at = Unset
            /\ Len(runnerLog') = 1
            /\ runnerLog'[1].op = "run" /\ runnerLog'[1].run = id
            /\ result' # EmptyResult
            /\ result'.id = id /\ result'.status = "running"
    ]_vars

\* C7: a restart of run r while the most recent run of r's pair is not
\* 'finished' returns the empty result, changes no run and no record, and
\* makes no runner call.
C7_RestartRefusal ==
    [][lastOp'.op = "restart" =>
       \A id \in 1..Len(runs), names \in SUBSET Names :
        ( /\ TestRun_restart(id, names)
          /\ MostRecentUnfinished(runs[id].test_set_id, runs[id].cluster_id) ) =>
            /\ result' = EmptyResult
            /\ runs' = runs /\ tests' = tests
            /\ runnerLog' = << >>
    ]_vars

\* C7 witness: a restart of a finished run has just been refused while a
\* newer run of the same pair is 'running'.
C7_Witness ==
    /\ lastOp.op = "restart" /\ ~lastOp.ok
    /\ result = EmptyResult
    /\ runs[lastOp.run].status = "finished"
    /\ \E j \in RunsOfPair(runs[lastOp.run].test_set_id, runs[lastOp.run].cluster_id) :
           j > lastOp.run /\ runs[j].status = "running"

\* C8: a stop of run r leaves every row of the tests table as it was, except
\* rows of r whose status was 'running' or 'wait_running'; no row is added or
\* removed.
C8_StopScoping ==
    [][lastOp'.op = "stop" =>
       \A id \in 1..Len(runs), killed \in BOOLEAN :
        TestRun_stop(id, killed) =>
            /\ Len(tests') = Len(tests)
            /\ \A j \in 1..Len(tests) :
                 (tests[j].test_run_id # id
                    \/ tests[j].status \notin {"running", "wait_running"}) =>
                        tests'[j] = tests[j]
    ]_vars

\* C8 witness: a confirmed stop has just marked its run's record 'stopped'
\* while a record of another run is 'running' or 'wait_running'.
C8_Witness ==
    /\ lastOp.op = "stop" /\ lastOp.ok
    /\ \E j \in RecordsOf(lastOp.run) : tests[j].status = "stopped"
    /\ \E j \in 1..Len(tests) :
           /\ tests[j].test_run_id \notin {NoRun, lastOp.run}
           /\ tests[j].status \in {"running", "wait_running"}

\* C9: a stop of run r makes exactly one runner call, kill with r's id, r's
\* cluster id and the cleanup path of r's test set; when kill answers true
\* every record of r that was 'running' or 'wait_running' is 'stopped' and none
\* is 'running' or 'wait_running' afterwards; when kill answers false the tests
\* table is unchanged; either way stop returns r's snapshot.
C9_StopEffect ==
    [][lastOp'.op = "stop" =>
       \A id \in 1..Len(runs), killed \in BOOLEAN :
        TestRun_stop(id, killed) =>
            /\ Len(runnerLog') = 1
            /\ runnerLog'[1].op = "kill"
            /\ runnerLog'[1].run = id
            /\ runnerLog'[1].cluster_id = runs[id].cluster_id
            /\ runnerLog'[1].cleanup = cleanup_path(runs[id].test_set_id)
            /\ killed =>
                 \A j \in RecordsOf(id) :
                     /\ tests'[j].test_run_id = id
                     /\ tests'[j].status \notin {"running", "wait_running"}
                     /\ tests[j].status \in {"running", "wait_running"}
                            => tests'[j].status = "stopped"
            /\ ~killed => tests' = tests
            /\ result' # EmptyResult
            /\ result'.id = id
            /\ result'.status = runs[id].status
            /\ Len(result'.tests) = Cardinality(RecordsOf(id))
    ]_vars

\* C9 witness: a confirmed stop has just returned its run's snapshot, after
\* one kill call, and every record of the run is 'stopped'.
C9_Witness ==
    /\ lastOp.op = "stop" /\ lastOp.ok
    /\ Len(runnerLog) = 1 /\ runnerLog[1].op = "kill"
    /\ result # EmptyResult /\ result.id = lastOp.run
    /\ RecordsOf(lastOp.run) # {}
    /\ \A j \in RecordsOf(lastOp.run) : tests[j].status = "stopped"

\* C10: a stop leaves the test_runs table as it was, and after the stop of a
\* 'running' run the guard of start refuses that run's pair.
C10_StopNotFinished ==
    [][lastOp'.op = "stop" =>
       \A id \in 1..Len(runs), killed \in BOOLEAN :
        TestRun_stop(id, killed) =>
            /\ runs' = runs
            /\ runs[id].status = "running" =>
                 ~is_last_running(runs', runs[id].test_set_id, runs[id].cluster_id)
    ]_vars

\* C11: add_result whose (test_run_id, name) matches no row raises nothing
\* and leaves every run and every row as it was; when it matches, only
\* rows with that test_run_id and that name differ afterwards.
C11_AddResultScope ==
    [][lastOp'.op = "add_result" =>
       (Test_add_result(lastOp'.run, lastOp'.name, lastOp'.data) =>
           /\ runs' = runs
           /\ result' = EmptyResult
           /\ Len(tests') = Len(tests)
           /\ (Matched(tests, lastOp'.run, lastOp'.name) = {} => tests' = tests)
           /\ \A j \in 1..Len(tests) :
                (tests[j].test_run_id # lastOp'.run \/ tests[j].name # lastOp'.name) =>
                    tests'[j] = tests[j])
    ]_vars

\* an add_result matched nothing while rows of runs exist, and another
\* changed a row of its run
C11_Witness ==
    /\ lastOp.op = "add_result"
    /\ ~lastOp.ok
    /\ Len(runs) = 2
    /\ \E j \in 1..Len(tests) : tests[j].test_run_id # NoRun /\ tests[j].message = "boom"

\* C12: the template rows (test_run_id null) are never modified, whatever
\* the sequence of start, restart, stop, update, add_result,
\* update_running_tests and update_test_run_tests and whatever run id
\* those calls receive: the rows loaded at first stay as they were loaded.
C12_TemplateImmutability ==
    /\ Len(tests) >= Len(TemplateRows)
    /\ SubSeq(tests, 1, Len(TemplateRows)) = TemplateRows

\* C13: call_until_true returns True at the first call of func that answers
\* true and calls func no more; it returns False only when the clock read at
\* entry or after a sleep is at or past start + duration; func is never called
\* once such a reading has met the budget; every unsuccessful call is followed
\* by one sleep of exactly sleep_for before the clock is read again; and with
\* func first true on its 3rd call, sleep_for 1 and duration 10, func is
\* called exactly 3 times and the result is True.
C13_PollerContract ==
    poll.pc \notin {"idle", "entry"} =>
        /\ poll.firstTrue # 0 => poll.calls <= poll.firstTrue
        /\ (poll.firstTrue # 0 /\ poll.calls = poll.firstTrue) => (poll.pc = "done" /\ poll.ret)
        /\ (poll.pc = "done" /\ poll.ret) => (poll.firstTrue # 0 /\ poll.calls = poll.firstTrue)
        /\ (poll.pc = "done" /\ ~poll.ret) => poll.now >= poll.start + poll.duration
        /\ poll.pc = "call" => poll.now < poll.start + poll.duration
        /\ poll.calls > 0 => poll.nowAtCall < poll.start + poll.duration
        /\ \A i \in 1..Len(poll.slept) : poll.slept[i] = poll.sleep_for
        /\ (poll.pc \in {"test", "call", "read"} \/ (poll.pc = "done" /\ ~poll.ret)) =>
              Len(poll.slept) = poll.calls
        /\ (poll.pc = "sleep" \/ (poll.pc = "done" /\ poll.ret)) =>
              Len(poll.slept) = poll.calls - 1
        /\ (poll.pc = "done" /\ poll.firstTrue = 3 /\ poll.sleep_for = 1 /\ poll.duration = 10) =>
              (poll.ret /\ poll.calls = 3)

\* seconds that func and oversleeping have taken since the clock was read
\* at entry
PollLag == poll.clock - poll.start - Len(poll.slept) * poll.sleep_for

\* C13, amended: the same contract, where the 3rd-call scenario (sleep_for 1,
\* duration 10) ends with exactly 3 calls and True whenever func and
\* oversleeping have taken less than 8 seconds before the 3rd call, and
\* otherwise with False, fewer than 3 calls and a clock reading at or past
\* start + 10.
C13_PollerContractTimed ==
    poll.pc \notin {"idle", "entry"} =>
        /\ poll.firstTrue # 0 => poll.calls <= poll.firstTrue
        /\ (poll.firstTrue # 0 /\ poll.calls = poll.firstTrue) => (poll.pc = "done" /\ poll.ret)
        /\ (poll.pc = "done" /\ poll.ret) => (poll.firstTrue # 0 /\ poll.calls = poll.firstTrue)
        /\ (poll.pc = "done" /\ ~poll.ret) => poll.now >= poll.start + poll.duration
        /\ poll.pc = "call" => poll.now < poll.start + poll.duration
        /\ poll.calls > 0 => poll.nowAtCall < poll.start + poll.duration
        /\ \A i \in 1..Len(poll.slept) : poll.slept[i] = poll.sleep_for
        /\ (poll.pc \in {"test", "call", "read"} \/ (poll.pc = "done" /\ ~poll.ret)) =>
              Len(poll.slept) = poll.calls
        /\ (poll.pc = "sleep" \/ (poll.pc = "done" /\ poll.ret)) =>
              Len(poll.slept) = poll.calls - 1
        /\ (poll.pc = "done" /\ poll.firstTrue = 3 /\ poll.sleep_for = 1 /\ poll.duration = 10) =>
              /\ poll.ret => poll.calls = 3
              /\ ~poll.ret => (poll.calls < 3 /\ PollLag >= 8
                                /\ poll.now >= poll.start + 10)

\* func answered true on its 3rd call, with sleep_for 1 and duration 10
C13_Witness ==
    /\ poll.pc = "done"
    /\ poll.firstTrue = 3 /\ poll.sleep_for = 1 /\ poll.duration = 10
    /\ poll.ret /\ poll.calls = 3 /\ poll.slept = <<1, 1>>

\* C14: whichever way a guarded scope is left (its body returned, raised
\* an error of its own, or timed out), the process alarm is disarmed as the
\* scope is left, no alarm stays armed once every scope is closed, and no
\* alarm goes off outside a scope.
C14_DisarmOnExit ==
    guard.pc = "run" =>
        /\ guard.left # NotLeft => guard.alarmAt = NoAlarm
        /\ guard.stack = << >> => guard.alarmAt = NoAlarm
        /\ ~guard.stray

\* a scope with a deadline has just been left, before the deadline, by an
\* error of its body, and no alarm is armed
C14_Witness ==
    /\ guard.pc = "run"
    /\ guard.left # NotLeft
    /\ guard.left.exc = OwnError
    /\ guard.left.scope.timeout > 0
    /\ guard.left.at < guard.left.scope.entered + guard.left.scope.timeout
    /\ guard.alarmAt = NoAlarm

\* C15: for a guard with no guard nested in it, a body that ends before the
\* deadline has its result or its own error passed on unchanged; a body
\* still running at the deadline is aborted then, and the guard fails with
\* an error that names the interrupted statement and the timeout value.
C15_GuardOutcomes ==
    guard.pc = "run" =>
        /\ (guard.left # NotLeft /\ ~guard.left.scope.nested) =>
              /\ guard.left.exc.type # "TimeOutError" =>
                    /\ guard.left.out = guard.left.exc
                    /\ guard.left.scope.timeout > 0 =>
                          guard.left.at < guard.left.scope.entered + guard.left.scope.timeout
              /\ guard.left.exc.type = "TimeOutError" =>
                    /\ guard.left.out = [type |-> "AssertionError",
                                         call |-> guard.left.scope.call,
                                         timeout |-> guard.left.scope.timeout]
                    /\ guard.left.at = guard.left.scope.entered + guard.left.scope.timeout
        /\ (guard.stack # << >> /\ guard.exc = NoExc
              /\ ~guard.stack[Len(guard.stack)].nested
              /\ guard.stack[Len(guard.stack)].timeout > 0) =>
                 guard.clock < guard.stack[Len(guard.stack)].entered
                                 + guard.stack[Len(guard.stack)].timeout

\* a body ran into a deadline of 2 seconds and the guard failed
C15_Witness ==
    /\ guard.pc = "run"
    /\ guard.left # NotLeft
    /\ ~guard.left.scope.nested
    /\ guard.left.exc.type = "TimeOutError"
    /\ guard.left.out.type = "AssertionError"
    /\ guard.left.scope.timeout = 2

\* C16: guards nest: once a guard nested in another has been left, the
\* outer guard's deadline is still enforced, so the outer body is never
\* found running at or past the outer deadline.
C16_NestedDeadline ==
    guard.pc = "run" =>
        ((guard.stack # << >> /\ guard.exc = NoExc
            /\ guard.stack[Len(guard.stack)].nested
            /\ guard.stack[Len(guard.stack)].timeout > 0) =>
               guard.clock < guard.stack[Len(guard.stack)].entered
                               + guard.stack[Len(guard.stack)].timeout)

\* C17: with one call at a time, whenever is_last_running answers true for
\* a (test_set, cluster_id) pair, no TestRun of that pair has status
\* 'running', also after an older run was restarted while a newer one is
\* finished.
C17_GuardSoundness ==
    \A test_set \in TestSets, cluster_id \in Clusters :
        is_last_running(runs, test_set, cluster_id) =>
            \A i \in RunsOfPair(test_set, cluster_id) : runs[i].status # "running"

\* C19: the status of every row of the tests table is one of Test.STATES
\* and the status of every run is one of TestRun.STATES.
C19_StatusDomain ==
    /\ \A j \in 1..Len(tests) : tests[j].status \in TestSTATES
    /\ \A i \in 1..Len(runs) : runs[i].status \in TestRunSTATES

\* C20: every row with a test_run_id refers to an existing TestRun of the
\* same test set; a refused start leaves no rows behind, so each run owns
\* just the clones of its own test set's templates; and every run started
\* for a test set that has a Check Definition owns at least one row.
C20_ReferentialIntegrity ==
    /\ \A j \in 1..Len(tests) :
         tests[j].test_run_id # NoRun =>
            /\ tests[j].test_run_id \in 1..Len(runs)
            /\ runs[tests[j].test_run_id].test_set_id = tests[j].test_set_id
    /\ \A i \in 1..Len(runs) :
         /\ Cardinality(RecordsOf(i)) = Len(SuiteChecks(runs[i].test_set_id))
         /\ SuiteChecks(runs[i].test_set_id) # << >> => RecordsOf(i) # {}

\* two runs of different test sets own their rows, and a start has just
\* been refused
C20_Witness ==
    /\ Len(runs) = 2
    /\ runs[1].test_set_id # runs[2].test_set_id
    /\ RecordsOf(1) # {} /\ RecordsOf(2) # {}
    /\ lastOp.op = "start" /\ ~lastOp.ok

\* C18: add_result is last-write-wins per column: on every row it matches,
\* each column the dictionary names takes the given value (a 'stopped'
\* status written by stop included) and every other column keeps its
\* value, so after any sequence of calls a column holds what the last call
\* naming it gave; and making the same call again changes nothing.
C18_LastWriteWins ==
    [][lastOp'.op = "add_result" =>
       (Test_add_result(lastOp'.run, lastOp'.name, lastOp'.data) =>
           /\ \A j \in Matched(tests, lastOp'.run, lastOp'.name) :
                \A f \in DOMAIN tests[j] :
                    tests'[j][f] = IF f \in DOMAIN lastOp'.data
                                   THEN lastOp'.data[f] ELSE tests[j][f]
           /\ add_result(tests', lastOp'.run, lastOp'.name, lastOp'.data) = tests'
           /\ (lastOp.op = "add_result" /\ lastOp.run = lastOp'.run
                  /\ lastOp.name = lastOp'.name /\ lastOp.data = lastOp'.data) =>
                     tests' = tests)
    ]_vars

\* a result with a status arrived for a row that stop had set to
\* 'stopped' and that carried a message from an earlier result
C18_Witness ==
    /\ lastOp.op = "add_result"
    /\ lastOp.was = {"stopped"}
    /\ lastOp.data = [status |-> "running"]
    /\ \E j \in Matched(tests, lastOp.run, lastOp.name) :
           tests[j].status = "running" /\ tests[j].message = "note"

====
